---- MODULE Spec2Model ----
(***************************************************************************)
(* A model of cursor_chat_exporter (src/src/cursor_chat_exporter/          *)
(* cursor_export.py): the time/name formatter, the two markdown renderers  *)
(* and the workspace exporter.                                             *)
(*                                                                         *)
(* Python strings are TLA+ strings; a character is a one-character string. *)
(* A Python dict is a record that carries the set of its present keys.     *)
(***************************************************************************)
EXTENDS Integers, Sequences, FiniteSets, TLC

VARIABLES
    call,            \* the pure-function call under study: arguments, position, result
    chat_history,    \* export_all_workspaces: the list of workspace records (input)
    pc,              \* position of the export run
    wi,              \* index in chat_history of the workspace being exported
    si,              \* index of the session being exported in the current list
    workspace_name,  \* export_workspace: workspace_name
    workspace_data,  \* export_workspace: the summary being accumulated
    dirs,            \* output tree: the directories that exist
    files,           \* output tree: path -> content of every file that exists
    results          \* export_all_workspaces: results

vars == <<call, chat_history, pc, wi, si, workspace_name, workspace_data,
          dirs, files, results>>

exportVars == <<chat_history, pc, wi, si, workspace_name, workspace_data,
                dirs, files, results>>

(***************************************************************************)
(* Bounds of the model.                                                    *)
(***************************************************************************)
MaxTitleLen == 164       \* titles of 0..MaxTitleLen characters are tried
MaxRawLen == 161         \* raw (unparseable) timestamps of up to MaxRawLen characters

(***************************************************************************)
(* Python values.                                                          *)
(***************************************************************************)
\* an Optional value is a list of no element (None) or of one element
NoneResult == <<>>

Some(x) == <<x>>

\* a JSON string timestamp
StrTs(s) == [kind |-> "str", s |-> s, q |-> 0, r |-> 0]

\* a JSON number timestamp of value 1000 * q + r, 0 <= r < 1000
NumTs(q, r) == [kind |-> "num", s |-> "", q |-> q, r |-> r]

(***************************************************************************)
(* String primitives: str.replace, slicing, character classes.             *)
(***************************************************************************)
CharAt(s, i) == SubSeq(s, i, i)

\* c * n
RECURSIVE Rep(_, _)
Rep(c, n) ==
    IF n <= 0 THEN ""
    ELSE IF n = 1 THEN c
    ELSE Rep(c, n \div 2) \o Rep(c, n - (n \div 2))

\* old occurs in s at position i
MatchAt(s, old, i) ==
    i >= 1 /\ i + Len(old) - 1 <= Len(s) /\ SubSeq(s, i, i + Len(old) - 1) = old

\* what positions lo..hi of s contribute to s.replace(old, new)
RECURSIVE ReplaceRange(_, _, _, _, _)
ReplaceRange(s, old, new, lo, hi) ==
    IF lo > hi THEN ""
    ELSE IF lo = hi
         THEN IF MatchAt(s, old, lo) THEN new
              ELSE IF \E j \in (lo - Len(old) + 1)..(lo - 1) : MatchAt(s, old, j)
                   THEN ""
                   ELSE CharAt(s, lo)
         ELSE LET mid == (lo + hi) \div 2
              IN  ReplaceRange(s, old, new, lo, mid)
                      \o ReplaceRange(s, old, new, mid + 1, hi)

\* s.replace(old, new), for the patterns of this program ('Z', ' ', ':',
\* 'file://'): no occurrence of such a pattern overlaps another one, so
\* every occurrence is replaced
StrReplace(s, old, new) == ReplaceRange(s, old, new, 1, Len(s))

\* s.startswith(prefix)
StartsWith(s, prefix) ==
    Len(s) >= Len(prefix) /\ SubSeq(s, 1, Len(prefix)) = prefix

\* s[:k], Python slice semantics: a negative k counts from the end
SliceTo(s, k) ==
    IF k >= 0
    THEN SubSeq(s, 1, IF k < Len(s) THEN k ELSE Len(s))
    ELSE SubSeq(s, 1, IF Len(s) + k > 0 THEN Len(s) + k ELSE 0)

Digits == {"0", "1", "2", "3", "4", "5", "6", "7", "8", "9"}

DigitVal(c) ==
    CASE c = "0" -> 0 [] c = "1" -> 1 [] c = "2" -> 2 [] c = "3" -> 3
      [] c = "4" -> 4 [] c = "5" -> 5 [] c = "6" -> 6 [] c = "7" -> 7
      [] c = "8" -> 8 [] c = "9" -> 9

DigitStr(d) == CharAt("0123456789", d + 1)

AllDigits(s) == \A i \in 1..Len(s) : CharAt(s, i) \in Digits

RECURSIVE ToInt(_)
ToInt(s) ==
    IF Len(s) = 0 THEN 0
    ELSE (10 * ToInt(SubSeq(s, 1, Len(s) - 1))) + DigitVal(CharAt(s, Len(s)))

Pad2(n) == DigitStr((n \div 10) % 10) \o DigitStr(n % 10)

Pad4(n) == Pad2(n \div 100) \o Pad2(n % 100)

\* the characters the title substitution of get_safe_filename replaces
IllegalChars == {"<", ">", ":", "\"", "/", "\\", "|", "?", "*"}

\* the characters matched by \s
Whitespace == {" ", "\t", "\n"}

(***************************************************************************)
(* format_datetime                                                         *)
(***************************************************************************)
IsLeap(y) == (y % 4 = 0 /\ y % 100 # 0) \/ y % 400 = 0

DaysInMonth(y, m) ==
    IF m = 2 THEN (IF IsLeap(y) THEN 29 ELSE 28)
    ELSE IF m \in {4, 6, 9, 11} THEN 30 ELSE 31

\* calendar date of the day number days counted from 1970-01-01
CivilFromDays(days) ==
    LET z == days + 719468
        era == z \div 146097
        doe == z - (era * 146097)
        yoe == (doe - (doe \div 1460) + (doe \div 36524) - (doe \div 146096)) \div 365
        doy == doe - ((365 * yoe) + (yoe \div 4) - (yoe \div 100))
        mp == ((5 * doy) + 2) \div 153
        d == doy - (((153 * mp) + 2) \div 5) + 1
        m == IF mp < 10 THEN mp + 3 ELSE mp - 9
        y == yoe + (era * 400) + (IF m <= 2 THEN 1 ELSE 0)
    IN  <<y, m, d>>

\* ExceedsMsThreshold with date_str >= 1e10
ExceedsMsThreshold_Inclusive(ts) ==
    ts.q >= 10000000

\* date_str > 1e10, for the number 1000 * q + r
ExceedsMsThreshold(ts) ==
    ts.q > 10000000 \/ (ts.q = 10000000 /\ ts.r > 0)

\* datetime.fromtimestamp(date_str / 1000 if date_str > 1e10 else date_str),
\* in a UTC process: <<year, month, day, hour, minute, second>>
FromTimestamp(ts) ==
    LET ms == ExceedsMsThreshold(ts)
        \* whole 200-second units when the value is read as seconds
        units == (5 * ts.q) + (ts.r \div 200)
        days == IF ms THEN ts.q \div 86400 ELSE units \div 432
        sod == IF ms THEN ts.q % 86400 ELSE ((units % 432) * 200) + (ts.r % 200)
        ymd == CivilFromDays(days)
    IN  <<ymd[1], ymd[2], ymd[3], sod \div 3600, (sod % 3600) \div 60, sod % 60>>

ParseError == <<>>

\* HH[:MM[:SS[.fff[fff]]]] -> <<hour, minute, second>>, or ParseError
ParseIsoTime(t) ==
    LET n == Len(t)
        okShape ==
            /\ n \in {2, 5, 8, 12, 15}
            /\ AllDigits(SubSeq(t, 1, 2))
            /\ n >= 5 => (CharAt(t, 3) = ":" /\ AllDigits(SubSeq(t, 4, 5)))
            /\ n >= 8 => (CharAt(t, 6) = ":" /\ AllDigits(SubSeq(t, 7, 8)))
            /\ n >= 12 => (CharAt(t, 9) = "." /\ AllDigits(SubSeq(t, 10, n)))
        h == ToInt(SubSeq(t, 1, 2))
        mi == IF n >= 5 THEN ToInt(SubSeq(t, 4, 5)) ELSE 0
        s == IF n >= 8 THEN ToInt(SubSeq(t, 7, 8)) ELSE 0
    IN  IF okShape /\ h < 24 /\ mi < 60 /\ s < 60 THEN <<h, mi, s>> ELSE ParseError

\* index of the first '-' or '+' of t (the start of the UTC offset), 0 if none
OffsetPos(t) ==
    LET minus == {i \in 1..Len(t) : CharAt(t, i) = "-"}
        plus == {i \in 1..Len(t) : CharAt(t, i) = "+"}
        first(S) == CHOOSE i \in S : \A j \in S : i <= j
    IN  IF minus # {} THEN first(minus)
        ELSE IF plus # {} THEN first(plus) ELSE 0

\* datetime.fromisoformat(s): YYYY-MM-DD[*HH[:MM[:SS[.fff[fff]]]][+HH:MM]]
\* -> <<year, month, day, hour, minute, second>>, or ParseError (ValueError)
FromIsoFormat(s) ==
    LET n == Len(s)
        dateShape ==
            /\ n >= 10
            /\ AllDigits(SubSeq(s, 1, 4)) /\ CharAt(s, 5) = "-"
            /\ AllDigits(SubSeq(s, 6, 7)) /\ CharAt(s, 8) = "-"
            /\ AllDigits(SubSeq(s, 9, 10))
        y == ToInt(SubSeq(s, 1, 4))
        m == ToInt(SubSeq(s, 6, 7))
        d == ToInt(SubSeq(s, 9, 10))
        dateOk == dateShape /\ y >= 1 /\ m \in 1..12 /\ d >= 1 /\ d <= DaysInMonth(y, m)
        tstr == SubSeq(s, 12, n)
        tz == OffsetPos(tstr)
        timestr == IF tz > 0 THEN SubSeq(tstr, 1, tz - 1) ELSE tstr
        tzstr == IF tz > 0 THEN SubSeq(tstr, tz + 1, Len(tstr)) ELSE ""
        hms == ParseIsoTime(timestr)
        tzOk == tz = 0 \/ (Len(tzstr) = 5 /\ ParseIsoTime(tzstr) # ParseError)
    IN  IF ~dateOk THEN ParseError
        ELSE IF n = 10 THEN <<y, m, d, 0, 0, 0>>
        ELSE IF n = 11 \/ hms = ParseError \/ ~tzOk THEN ParseError
        ELSE <<y, m, d, hms[1], hms[2], hms[3]>>

\* date.strftime("%Y-%m-%d %H:%M:%S")
Strftime(f) ==
    Pad4(f[1]) \o "-" \o Pad2(f[2]) \o "-" \o Pad2(f[3]) \o " "
        \o Pad2(f[4]) \o ":" \o Pad2(f[5]) \o ":" \o Pad2(f[6])

\* format_datetime(date_str); the bare except returns str(date_str)
format_datetime(ts) ==
    IF ts.kind = "num" THEN Strftime(FromTimestamp(ts))
    ELSE LET parsed == FromIsoFormat(StrReplace(ts.s, "Z", "+00:00"))
         IN  IF parsed = ParseError THEN ts.s ELSE Strftime(parsed)

(***************************************************************************)
(* get_safe_filename                                                       *)
(***************************************************************************)
MAX_FILENAME_LENGTH == 160

\* what positions lo..hi of s contribute to re.sub(r'[<>:"/\\|?*]', '-', s)
RECURSIVE SubIllegalRange(_, _, _)
SubIllegalRange(s, lo, hi) ==
    IF lo > hi THEN ""
    ELSE IF lo = hi
         THEN (IF CharAt(s, lo) \in IllegalChars THEN "-" ELSE CharAt(s, lo))
         ELSE LET mid == (lo + hi) \div 2
              IN  SubIllegalRange(s, lo, mid) \o SubIllegalRange(s, mid + 1, hi)

\* re.sub(r'[<>:"/\\|?*]', '-', title)
SubIllegal(s) == SubIllegalRange(s, 1, Len(s))

\* what positions lo..hi of s contribute to re.sub(r'\s+', '-', s): the
\* first character of a run of whitespace becomes '-', the rest vanish
RECURSIVE SubWhitespaceRange(_, _, _)
SubWhitespaceRange(s, lo, hi) ==
    IF lo > hi THEN ""
    ELSE IF lo = hi
         THEN IF CharAt(s, lo) \notin Whitespace THEN CharAt(s, lo)
              ELSE IF lo > 1 /\ CharAt(s, lo - 1) \in Whitespace THEN "" ELSE "-"
         ELSE LET mid == (lo + hi) \div 2
              IN  SubWhitespaceRange(s, lo, mid) \o SubWhitespaceRange(s, mid + 1, hi)

\* re.sub(r'\s+', '-', s)
SubWhitespace(s) == SubWhitespaceRange(s, 1, Len(s))

SafeDate(timestamp) ==
    StrReplace(StrReplace(format_datetime(timestamp), " ", "-"), ":", "-")

SafeTitle(title) == SubWhitespace(SubIllegal(title))

get_safe_filename(timestamp, title) ==
    LET date_str == SafeDate(timestamp)
        safe_title == SafeTitle(title)
        combined_name == date_str \o "--" \o safe_title
    IN  IF Len(combined_name) > MAX_FILENAME_LENGTH
        THEN date_str \o "--"
                 \o SliceTo(safe_title, MAX_FILENAME_LENGTH - Len(date_str) - 4)
        ELSE combined_name

(***************************************************************************)
(* Python dicts: a record with the set `keys` of the keys that are present;*)
(* the field of a missing key is never read.                               *)
(***************************************************************************)
Has(d, k) == k \in d.keys

\* bool(d.get(k)) for a string-valued or list-valued key
Truthy(d, k) == Has(d, k) /\ Len(d[k]) > 0

\* d[k] is None
IsNone(d, k) == Has(d, k) /\ k \in d.nulls

\* d.get(k, default) for a string-valued key
GetStr(d, k, default) == IF Has(d, k) THEN d[k] ELSE default

\* d.get(k, []) for a list-valued key
GetList(d, k) == IF Has(d, k) THEN d[k] ELSE <<>>

\* bool(timestamp): '' and 0 are false
TsTruthy(ts) == IF ts.kind = "num" THEN ts.q # 0 \/ ts.r # 0 ELSE ts.s # ""

\* str(n) for a natural number
RECURSIVE IntStr(_)
IntStr(n) == IF n < 10 THEN DigitStr(n) ELSE IntStr(n \div 10) \o DigitStr(n % 10)

\* sep.join(parts)
RECURSIVE Join(_, _)
Join(parts, sep) ==
    IF Len(parts) = 0 THEN ""
    ELSE IF Len(parts) = 1 THEN parts[1]
    ELSE parts[1] \o sep \o Join(Tail(parts), sep)

\* the concatenation of the strings of a list
RECURSIVE Concat(_)
Concat(parts) == IF Len(parts) = 0 THEN "" ELSE parts[1] \o Concat(Tail(parts))

\* [x for x in list if keep(x)], as the list of the kept indices' values
RECURSIVE SelectIdx(_, _)
SelectIdx(list, keepIdx) ==
    IF Len(list) = 0 THEN <<>>
    ELSE LET rest == SelectIdx(SubSeq(list, 1, Len(list) - 1), keepIdx)
         IN  IF Len(list) \in keepIdx THEN Append(rest, list[Len(list)]) ELSE rest

(***************************************************************************)
(* convert_cursor_session_to_markdown                                      *)
(***************************************************************************)
\* the '# Workspace: ...' header of both renderers
WorkspaceHeader(workspace_info) ==
    IF Truthy(workspace_info, "folder")
    THEN "# Workspace: " \o StrReplace(workspace_info.folder, "file://", "") \o "\n\n"
    ELSE "# Workspace: " \o GetStr(workspace_info, "id", "Unknown") \o "\n\n"

\* session.get('customTitle') or f"Chat Session {session.get('sessionId', 'Unknown')}"
ChatTitle(session) ==
    IF Truthy(session, "customTitle") THEN session.customTitle
    ELSE "Chat Session " \o GetStr(session, "sessionId", "Unknown")

\* request.get('message', {}).get('text')
HasUserText(request) == Has(request, "message") /\ Truthy(request.message, "text")

\* response_parts: the non-empty values of the response fragments, in order
ResponseParts(request) ==
    LET response == GetList(request, "response")
        kept == {i \in 1..Len(response) : Truthy(response[i], "value")}
    IN  SelectIdx([i \in 1..Len(response) |-> response[i].value], kept)

\* RenderRequest with the headers written whether or not there is text
RenderRequest_EmptyHeaders(request) ==
    "**User**:\n\n"
    \o (IF HasUserText(request) THEN request.message.text \o "\n\n" ELSE "")
    \o "**Cursor**:\n\n"
    \o (IF ResponseParts(request) # <<>>
        THEN Join(ResponseParts(request), "\n") \o "\n\n" ELSE "")
    \o "---\n\n"

\* one iteration of the loop over session_data['requests']
RenderRequest(request) ==
    (IF HasUserText(request)
     THEN "**User**:\n\n" \o request.message.text \o "\n\n" ELSE "")
    \o (IF ResponseParts(request) # <<>>
        THEN "**Cursor**:\n\n" \o Join(ResponseParts(request), "\n") \o "\n\n" ELSE "")
    \o "---\n\n"

convert_cursor_session_to_markdown(session_data, workspace_info) ==
    LET requests == GetList(session_data, "requests")
    IN  WorkspaceHeader(workspace_info)
        \o (IF Has(session_data, "creationDate") /\ TsTruthy(session_data.creationDate)
            THEN "Created: " \o format_datetime(session_data.creationDate) \o "\n\n"
            ELSE "")
        \o "## " \o ChatTitle(session_data) \o "\n\n"
        \o Concat([i \in 1..Len(requests) |-> RenderRequest(requests[i])])

\* request.get('message', {}).get('text') raises AttributeError on a request
\* whose message is None: the renderer and export_chat_session do not return
ChatSessionRaises(session_data) ==
    \E i \in 1..Len(GetList(session_data, "requests")) :
        IsNone(session_data.requests[i], "message")

(***************************************************************************)
(* convert_cursor_editing_session_to_markdown                              *)
(***************************************************************************)
\* the backquote of the markdown code spans, which a TLA+ string cannot
\* hold, is written as this character
BQ == "'"

\* the '**Modified File**' lines of one stop
RenderStop(stop) ==
    LET entries == GetList(stop, "entries")
    IN  Concat([i \in 1..Len(entries) |->
            LET resource == GetStr(entries[i], "resource", "")
            IN  IF StartsWith(resource, "file://")
                THEN "**Modified File**: " \o BQ \o StrReplace(resource, "file://", "") \o BQ \o "\n\n"
                ELSE ""])

\* ShownChanges without the limit to the first 5 changes
ShownChanges_NoLimit(edit) == edit.originalToCurrentEdit

\* edit['originalToCurrentEdit'][:5]
ShownChanges(edit) == SubSeq(edit.originalToCurrentEdit, 1,
    IF Len(edit.originalToCurrentEdit) < 5 THEN Len(edit.originalToCurrentEdit) ELSE 5)

\* the lines of one postEdit file entry
RenderPostEdit(edit) ==
    LET resource == GetStr(edit, "resource", "")
    IN  IF StartsWith(resource, "file://")
        THEN "- Modified: " \o BQ \o StrReplace(resource, "file://", "") \o BQ \o "\n"
             \o (IF Truthy(edit, "originalToCurrentEdit")
                 THEN "  - Edits:\n"
                      \o Concat([i \in 1..Len(ShownChanges(edit)) |->
                            LET change == ShownChanges(edit)[i]
                            IN  IF Truthy(change, "txt")
                                THEN "    - Added: " \o BQ \o SliceTo(change.txt, 100) \o "..." \o BQ \o "\n"
                                ELSE ""])
                 ELSE "")
        ELSE ""

\* one iteration of the loop over session_data['linearHistory'], i counted from 0
RenderHistoryEntry(i, entry) ==
    LET stops == GetList(entry, "stops")
        postEdit == GetList(entry, "postEdit")
    IN  "### Edit " \o IntStr(i + 1) \o "\n\n"
        \o Concat([k \in 1..Len(stops) |-> RenderStop(stops[k])])
        \o (IF Len(postEdit) > 0
            THEN "**Changes Made**:\n\n"
                 \o Concat([k \in 1..Len(postEdit) |-> RenderPostEdit(postEdit[k])])
                 \o "\n"
            ELSE "")
        \o "---\n\n"

convert_cursor_editing_session_to_markdown(session_data, workspace_info) ==
    LET linearHistory == GetList(session_data, "linearHistory")
    IN  WorkspaceHeader(workspace_info)
        \o "## Chat Editing Session: " \o GetStr(session_data, "sessionId", "Unknown") \o "\n\n"
        \o Concat([i \in 1..Len(linearHistory) |-> RenderHistoryEntry(i - 1, linearHistory[i])])

(***************************************************************************)
(* Inputs of the formatter: timestamps and titles.                         *)
(***************************************************************************)
\* session.get('creationDate', '') of a session without creationDate
NoTimestamp == StrTs("")

\* timestamps that parse: ISO strings and epoch numbers (seconds, milliseconds)
ParseableTimestamps ==
    { StrTs("2024-01-15T10:30:00Z"), StrTs("2024-01-15 10:30:00"),
      StrTs("2024-01-15"), StrTs("2024-01-15T10:30:00+05:30"),
      StrTs("2024-01-15T10:30:00.123Z"), StrTs("2024-02-29T23:59:59Z"),
      NumTs(1705313400, 0), NumTs(1705313, 400), NumTs(0, 0),
      NumTs(10000000, 0), NumTs(10000000, 1) }

\* strings fromisoformat rejects; format_datetime returns them unchanged
RawTimestamps ==
    { NoTimestamp, StrTs("01/15/2024"), StrTs("2024-02-30T10:30:00"),
      StrTs("12:30?"), StrTs("<now>"), StrTs("Jan 15 2024"),
      StrTs("2024-01-15T10:30:00ZZ"), StrTs("a|b*c\"d\\e>f") }
        \cup { StrTs(Rep("x", n)) : n \in 150..MaxRawLen }

TimestampPool == ParseableTimestamps \cup RawTimestamps

TitlePool ==
    { Rep("t", n) : n \in 0..MaxTitleLen }
        \cup { "a b/c  d:e", "what? <why>", "a\\b|c*\"d\"", "  lead and trail ",
               "tab\there\nnewline", Rep("a /", 60) }

(***************************************************************************)
(* The formatter as a state machine: one call of get_safe_filename.        *)
(***************************************************************************)
\* workspace_data outside export_workspace
NoData == [workspace |-> "",
           workspaceInfo |-> [keys |-> {}, id |-> "", folder |-> "", nulls |-> {}],
           chats |-> <<>>, editingSessions |-> <<>>]

\* the export run is not part of this state machine
ExportIdle ==
    /\ chat_history = <<>>
    /\ pc = "off"
    /\ wi = 0
    /\ si = 0
    /\ workspace_name = ""
    /\ workspace_data = NoData
    /\ dirs = {}
    /\ files = {}
    /\ results = <<>>

InitName ==
    /\ call \in [fn : {"get_safe_filename"}, timestamp : TimestampPool,
                 title : TitlePool, state : {"pending"}, ret : {""}]
    /\ ExportIdle

CallGetSafeFilename ==
    /\ call.fn = "get_safe_filename"
    /\ call.state = "pending"
    /\ call' = [call EXCEPT !.state = "returned",
                            !.ret = get_safe_filename(call.timestamp, call.title)]
    /\ UNCHANGED exportVars

NextName == CallGetSafeFilename

SpecName == InitName /\ [][NextName]_vars

(***************************************************************************)
(* format_datetime on the two encodings of one instant: the number of      *)
(* seconds and the number of milliseconds.                                 *)
(***************************************************************************)
MaxOffset == 30          \* instants up to MaxOffset seconds around each base instant

\* the JSON number n
IntTs(n) == NumTs(n \div 1000, n % 1000)

\* the JSON number 1000 * n
MillisTs(n) == NumTs(n, 0)

\* instants in epoch seconds: around the epoch, around one day, around the
\* value whose milliseconds are 1e10, and around a present-day date
EpochSeconds ==
    { b + d : b \in {0, 86400, 10000000, 1705313400}, d \in (0 - MaxOffset)..MaxOffset }

InitFormat ==
    /\ call \in [fn : {"format_datetime"}, seconds : EpochSeconds,
                 returned : {{}}, of_seconds : {""}, of_millis : {""}]
    /\ ExportIdle

\* format_datetime(s)
CallFormatSeconds ==
    /\ call.fn = "format_datetime"
    /\ "seconds" \notin call.returned
    /\ call' = [call EXCEPT !.returned = @ \cup {"seconds"},
                            !.of_seconds = format_datetime(IntTs(call.seconds))]
    /\ UNCHANGED exportVars

\* format_datetime(1000 * s)
CallFormatMillis ==
    /\ call.fn = "format_datetime"
    /\ "millis" \notin call.returned
    /\ call' = [call EXCEPT !.returned = @ \cup {"millis"},
                            !.of_millis = format_datetime(MillisTs(call.seconds))]
    /\ UNCHANGED exportVars

NextFormat == CallFormatSeconds \/ CallFormatMillis

SpecFormat == InitFormat /\ [][NextFormat]_vars

(***************************************************************************)
(* Inputs of the renderers: workspaceInfo, chat sessions, editing sessions.*)
(***************************************************************************)
MaxRequests == 2         \* requests per chat session
MaxChanges == 7          \* text changes per postEdit file entry

\* a workspaceInfo dict; nulls is the set of its keys whose value is null
Info(keys, id, folder) == [keys |-> keys, id |-> id, folder |-> folder, nulls |-> {}]

\* a workspaceInfo whose folder is null
NullFolderInfo == [keys |-> {"id", "folder"}, id |-> "ws5", folder |-> "",
                   nulls |-> {"folder"}]

InfoPool ==
    { Info({"id", "folder"}, "ws1", "file:///home/u/proj"),
      Info({"folder"}, "", "/home/u/other"),
      Info({"id", "folder"}, "ws3", ""),
      Info({"id"}, "ws4", ""),
      Info({}, "", "") }

Msg(text) == [keys |-> {"text"}, text |-> text]

NoTextMsg == [keys |-> {}, text |-> ""]

Frag(value) == [keys |-> {"value"}, value |-> value]

NoValueFrag == [keys |-> {}, value |-> ""]

\* a request dict; nulls is the set of its keys whose value is null
Req(keys, message, response, timestamp) ==
    [keys |-> keys, message |-> message, response |-> response, timestamp |-> timestamp,
     nulls |-> {}]

\* a request whose message is null
NullMessageReq ==
    [keys |-> {"message"}, message |-> NoTextMsg, response |-> <<>>,
     timestamp |-> NoTimestamp, nulls |-> {"message"}]

RequestPool ==
    { Req({"message", "response", "timestamp"}, Msg("Hi"), <<Frag("Hello")>>,
          NumTs(1705313400, 0)),
      Req({}, NoTextMsg, <<>>, NoTimestamp),
      Req({"message"}, Msg("How?"), <<>>, NoTimestamp),
      Req({"response"}, NoTextMsg,
          <<Frag("Like"), NoValueFrag, Frag(""), Frag("this")>>, NoTimestamp),
      Req({"message", "response"}, Msg(""), <<Frag(""), NoValueFrag>>, NoTimestamp),
      Req({"message", "response"}, NoTextMsg, <<>>, NoTimestamp) }

\* the lists of at most n elements of S
ListsUpTo(S, n) == UNION { [1..k -> S] : k \in 0..n }

ChatSession(keys, sessionId, customTitle, creationDate, requests) ==
    [keys |-> keys, sessionId |-> sessionId, customTitle |-> customTitle,
     creationDate |-> creationDate, requests |-> requests]

\* a chat session with each way of carrying the optional head fields
ChatSessionsWith(reqKey, requests) ==
    { ChatSession({"sessionId", "customTitle", "creationDate"} \cup reqKey,
                  "s1", "My chat", StrTs("2024-01-15T10:30:00Z"), requests),
      ChatSession({"sessionId"} \cup reqKey, "s2", "", NoTimestamp, requests),
      ChatSession(reqKey, "", "", NoTimestamp, requests),
      ChatSession({"sessionId", "customTitle", "creationDate"} \cup reqKey,
                  "s4", "", NumTs(0, 0), requests) }

RenderChatSessions ==
    ChatSessionsWith({}, <<>>)
        \cup ChatSessionsWith({"requests"}, <<NullMessageReq>>)
        \cup UNION { ChatSessionsWith({"requests"}, rs) :
                        rs \in ListsUpTo(RequestPool, MaxRequests) }

Change(txt) == [keys |-> {"txt"}, txt |-> txt]

NoTxtChange == [keys |-> {}, txt |-> ""]

\* change lists of every length up to MaxChanges: all with text, one blank
\* text, one missing text, and one text of more than 100 characters
ChangeLists ==
    { [i \in 1..n |-> Change("x = " \o IntStr(i))] : n \in 0..MaxChanges }
        \cup UNION { { [i \in 1..n |-> IF i = k THEN Change("")
                                       ELSE Change("x = " \o IntStr(i))] :
                          k \in 1..n } : n \in 1..MaxChanges }
        \cup UNION { { [i \in 1..n |-> IF i = k THEN NoTxtChange
                                       ELSE Change("x = " \o IntStr(i))] :
                          k \in {1, n} } : n \in 1..MaxChanges }
        \cup { <<Change(Rep("y", 120))>> }

Edit(keys, resource, originalToCurrentEdit) ==
    [keys |-> keys, resource |-> resource,
     originalToCurrentEdit |-> originalToCurrentEdit]

FileUri == "file:///home/u/proj/a.py"

OtherUri == "vscode-remote://host/a.py"

EditPool ==
    { Edit({"resource", "originalToCurrentEdit"}, uri, cl) :
          uri \in {FileUri, OtherUri}, cl \in ChangeLists }
        \cup { Edit({"originalToCurrentEdit"}, "", cl) : cl \in ChangeLists }
        \cup { Edit({"resource"}, FileUri, <<>>), Edit({}, "", <<>>) }

\* a second postEdit file entry, to follow any first one
SecondEdits ==
    { Edit({"resource", "originalToCurrentEdit"}, "file:///home/u/proj/b.py",
           [i \in 1..6 |-> Change("y = " \o IntStr(i))]),
      Edit({"resource", "originalToCurrentEdit"}, "file:///home/u/proj/c.py",
           <<Change("z = 0"), Change("")>>) }

PostEditLists ==
    { <<>> } \cup { <<e>> : e \in EditPool }
             \cup { <<e, f>> : e \in EditPool, f \in SecondEdits }

FileEntry(keys, resource) == [keys |-> keys, resource |-> resource]

Stop(keys, entries) == [keys |-> keys, entries |-> entries]

StopLists ==
    { <<>>,
      <<Stop({"entries"}, <<FileEntry({"resource"}, FileUri),
                            FileEntry({"resource"}, OtherUri),
                            FileEntry({}, "")>>)>>,
      <<Stop({}, <<>>), Stop({"entries"}, <<FileEntry({"resource"}, FileUri)>>)>> }

HistoryEntry(keys, stops, postEdit) ==
    [keys |-> keys, stops |-> stops, postEdit |-> postEdit]

HistoryEntries ==
    { HistoryEntry({"stops", "postEdit"}, st, pe) :
          st \in StopLists, pe \in PostEditLists }
        \cup { HistoryEntry({"stops"}, st, <<>>) : st \in StopLists }
        \cup { HistoryEntry({}, <<>>, <<>>) }

\* a second history entry, to follow any first one
SecondEntries ==
    { HistoryEntry({"postEdit"}, <<>>,
          <<Edit({"resource", "originalToCurrentEdit"}, FileUri,
                 [i \in 1..6 |-> Change("w = " \o IntStr(i))])>>) }

EditingSession(keys, sessionId, version, linearHistory) ==
    [keys |-> keys, sessionId |-> sessionId, version |-> version,
     linearHistory |-> linearHistory]

HistoryLists ==
    { <<>> } \cup { <<e>> : e \in HistoryEntries }
             \cup { <<e, f>> : e \in HistoryEntries, f \in SecondEntries }

RenderEditingSessions ==
    { EditingSession({"sessionId", "version", "linearHistory"}, "e1", "1", h) :
          h \in HistoryLists }
        \cup { EditingSession({"linearHistory"}, "", "", h) : h \in HistoryLists }
        \cup { EditingSession({"sessionId"}, "e2", "", <<>>) }

(***************************************************************************)
(* The renderers as a state machine: one call of either renderer.          *)
(***************************************************************************)
InitRender ==
    /\ call \in
          [fn : {"convert_cursor_session_to_markdown"}, session : RenderChatSessions,
           workspace_info : InfoPool, state : {"pending"}, ret : {""}]
          \cup
          [fn : {"convert_cursor_editing_session_to_markdown"},
           session : RenderEditingSessions,
           workspace_info : {Info({"id", "folder"}, "ws1", "file:///home/u/proj"),
                             Info({"id"}, "ws4", "")},
           state : {"pending"}, ret : {""}]
    /\ ExportIdle

CallConvertSession ==
    /\ call.fn = "convert_cursor_session_to_markdown"
    /\ call.state = "pending"
    /\ call' = IF ChatSessionRaises(call.session)
                THEN [call EXCEPT !.state = "raised"]
                ELSE [call EXCEPT !.state = "returned",
                         !.ret = convert_cursor_session_to_markdown(call.session,
                                                                    call.workspace_info)]
    /\ UNCHANGED exportVars

CallConvertEditingSession ==
    /\ call.fn = "convert_cursor_editing_session_to_markdown"
    /\ call.state = "pending"
    /\ call' = [call EXCEPT !.state = "returned",
                   !.ret = convert_cursor_editing_session_to_markdown(call.session,
                                                                      call.workspace_info)]
    /\ UNCHANGED exportVars

NextRender == CallConvertSession \/ CallConvertEditingSession

SpecRender == InitRender /\ [][NextRender]_vars

(***************************************************************************)
(* Claims about get_safe_filename (checked under SpecName).                *)
(***************************************************************************)
Returned(fn) == call.fn = fn /\ call.state = "returned"

\* C6: for every timestamp (numeric, ISO string, or an unparseable value
\* that falls back to its raw string form) and every title,
\* get_safe_filename returns a string of at most 160 characters.
C6_AtMost160 ==
    Returned("get_safe_filename") => Len(call.ret) <= MAX_FILENAME_LENGTH

\* C7: for every timestamp and every title, the string returned by
\* get_safe_filename contains none of the characters < > : " / \ | ? *,
\* in the date prefix as well as in the title part.
C7_NoIllegalChar ==
    Returned("get_safe_filename") =>
        \A i \in 1..Len(call.ret) : CharAt(call.ret, i) \notin IllegalChars

(***************************************************************************)
(* Claims about format_datetime (checked under SpecFormat).                *)
(***************************************************************************)
BothFormatted == call.fn = "format_datetime" /\ call.returned = {"seconds", "millis"}

\* C11 (as stated): for every pair of numeric inputs that denote the same
\* instant, s in epoch seconds and 1000 * s in epoch milliseconds,
\* format_datetime returns the identical string.
C11_SameInstantSameString ==
    BothFormatted => call.of_seconds = call.of_millis

\* C11 (amended): a number is read as milliseconds exactly when it is
\* greater than 1e10 and as seconds otherwise, so format_datetime(s) and
\* format_datetime(1000 * s) are the identical YYYY-MM-DD HH:MM:SS string
\* exactly when s = 0 or 1000 * s > 1e10; for any other s the number
\* 1000 * s is itself read as seconds and the two strings differ.
C11_SameStringAboveThreshold ==
    BothFormatted =>
        /\ Len(call.of_seconds) = 19 /\ Len(call.of_millis) = 19
        /\ (call.of_seconds = call.of_millis)
               <=> (call.seconds = 0 \/ call.seconds > 10000000)

\* a present-day instant has been formatted from both encodings
C11_Witness ==
    /\ BothFormatted
    /\ call.seconds = 1705313400
    /\ call.of_seconds = "2024-01-15 10:10:00"
    /\ call.of_millis = "2024-01-15 10:10:00"

(***************************************************************************)
(* Claims about the renderers (checked under SpecRender).                  *)
(***************************************************************************)
Contains(s, sub) == \E i \in 1..Len(s) : MatchAt(s, sub, i)

CountOcc(s, sub) == Cardinality({i \in 1..Len(s) : MatchAt(s, sub, i)})

Separator == "---\n\n"

\* no request of the session has user text or a non-empty response fragment
NoRequestHasText(session) ==
    \A i \in 1..Len(GetList(session, "requests")) :
        /\ ~HasUserText(session.requests[i])
        /\ ResponseParts(session.requests[i]) = <<>>

HasHeaderAndTitle(doc, session, workspace_info) ==
    /\ StartsWith(doc, "# Workspace: ")
    /\ Contains(doc, "## " \o ChatTitle(session) \o "\n\n")

\* C8 (as stated): given a chat session whose requests carry no text,
\* convert_cursor_session_to_markdown produces the workspace header and the
\* title line but no User block, no assistant block and no '---' separator.
C8_NoBlockNoSeparator ==
    (Returned("convert_cursor_session_to_markdown") /\ NoRequestHasText(call.session))
        => /\ HasHeaderAndTitle(call.ret, call.session, call.workspace_info)
           /\ ~Contains(call.ret, "**User**")
           /\ ~Contains(call.ret, "**Cursor**")
           /\ ~Contains(call.ret, Separator)

\* C8 (amended): given a chat session whose requests carry no text, the
\* document has the workspace header and the title line, no User block and
\* no assistant block, and exactly one '---' separator per request (none
\* when the requests list is empty or missing).
C8_NoBlockOneSeparatorEach ==
    (Returned("convert_cursor_session_to_markdown") /\ NoRequestHasText(call.session))
        => /\ HasHeaderAndTitle(call.ret, call.session, call.workspace_info)
           /\ ~Contains(call.ret, "**User**")
           /\ ~Contains(call.ret, "**Cursor**")
           /\ CountOcc(call.ret, Separator) = Len(GetList(call.session, "requests"))

\* a session with two requests, none with text, has been rendered
C8_Witness ==
    /\ Returned("convert_cursor_session_to_markdown")
    /\ NoRequestHasText(call.session)
    /\ Len(GetList(call.session, "requests")) = 2
    /\ CountOcc(call.ret, Separator) = 2

\* the postEdit file entries of an editing session, over its whole history
RECURSIVE Flatten(_)
Flatten(lists) == IF Len(lists) = 0 THEN <<>> ELSE lists[1] \o Flatten(Tail(lists))

AllPostEdits(session) ==
    LET h == GetList(session, "linearHistory")
    IN  Flatten([i \in 1..Len(h) |-> GetList(h[i], "postEdit")])

ChangeCount(edit) == Len(GetList(edit, "originalToCurrentEdit"))

ChangeLine == "    - Added: "

\* the changes with a non-empty txt among the first five of the entry
TextAmongFirstFive(edit) ==
    {i \in 1..ChangeCount(edit) : i <= 5 /\ Truthy(edit.originalToCurrentEdit[i], "txt")}

RECURSIVE SumOver(_, _)
SumOver(f, S) ==
    IF S = {} THEN 0
    ELSE LET x == CHOOSE y \in S : TRUE IN f[x] + SumOver(f, S \ {x})

\* C9 (as stated): every postEdit file entry whose change list has more than
\* 5 entries produces exactly 5 rendered change lines, and no entry ever
\* produces more than 5, whatever the changes and whatever the resource.
C9_ExactlyFive ==
    Returned("convert_cursor_editing_session_to_markdown") =>
        LET edits == AllPostEdits(call.session)
        IN  /\ CountOcc(call.ret, ChangeLine) <= 5 * Len(edits)
            /\ (\A i \in 1..Len(edits) : ChangeCount(edits[i]) > 5)
                   => CountOcc(call.ret, ChangeLine) = 5 * Len(edits)

\* C9 (amended): a postEdit file entry whose resource starts with file://
\* produces one change line for each change with a non-empty txt among its
\* first 5 changes, and an entry with another resource produces none; so no
\* entry produces more than 5, and an entry with more than 5 changes
\* produces exactly 5 when its resource starts with file:// and its first
\* five changes all have a non-empty txt.
C9_FirstFiveWithText ==
    Returned("convert_cursor_editing_session_to_markdown") =>
        LET edits == AllPostEdits(call.session)
            lines == [i \in 1..Len(edits) |->
                        IF StartsWith(GetStr(edits[i], "resource", ""), "file://")
                        THEN Cardinality(TextAmongFirstFive(edits[i])) ELSE 0]
        IN  /\ CountOcc(call.ret, ChangeLine) = SumOver(lines, 1..Len(edits))
            /\ CountOcc(call.ret, ChangeLine) <= 5 * Len(edits)
            /\ (\A i \in 1..Len(edits) :
                    /\ ChangeCount(edits[i]) > 5
                    /\ StartsWith(GetStr(edits[i], "resource", ""), "file://")
                    /\ Cardinality(TextAmongFirstFive(edits[i])) = 5)
                   => CountOcc(call.ret, ChangeLine) = 5 * Len(edits)

\* one file entry with more than 5 changes, all with text, has been rendered
\* with exactly 5 change lines
C9_Witness ==
    /\ Returned("convert_cursor_editing_session_to_markdown")
    /\ Len(AllPostEdits(call.session)) = 1
    /\ ChangeCount(AllPostEdits(call.session)[1]) > 5
    /\ StartsWith(GetStr(AllPostEdits(call.session)[1], "resource", ""), "file://")
    /\ Cardinality(TextAmongFirstFive(AllPostEdits(call.session)[1])) = 5
    /\ CountOcc(call.ret, ChangeLine) = 5

(***************************************************************************)
(* The output tree.  Paths are relative to output_dir.                     *)
(***************************************************************************)
\* Path(p).name: the last segment of a path, trailing slashes ignored
PathName(p) ==
    LET ends == {i \in 1..Len(p) : CharAt(p, i) # "/"}
        end == IF ends = {} THEN 0 ELSE CHOOSE i \in ends : \A j \in ends : j <= i
        slashes == {i \in 1..end : CharAt(p, i) = "/"}
        start == IF slashes = {} THEN 0
                 ELSE CHOOSE i \in slashes : \A j \in slashes : j <= i
    IN  SubSeq(p, start + 1, end)

\* Path(output_dir) / format_name / workspace_name
WorkspaceDir(format_name, name) ==
    IF name = "" THEN format_name ELSE format_name \o "/" \o name

\* Path(output_dir) / format_name / workspace_name / file
FilePath(format_name, name, file) == WorkspaceDir(format_name, name) \o "/" \o file

\* path.parent and its own parents: what mkdir(parents=True) creates
Parents(path) == {SubSeq(path, 1, i - 1) : i \in {j \in 2..Len(path) : CharAt(path, j) = "/"}}

FileRec(path, format, text, summary) ==
    [path |-> path, format |-> format, text |-> text, summary |-> summary]

\* WriteText that leaves an existing file as it is
WriteText_KeepFirst(fs, file) ==
    IF file.path \in {f.path : f \in fs} THEN fs ELSE fs \cup {file}

\* path.write_text(...): creates the file or replaces its content
WriteText(fs, file) == {f \in fs : f.path # file.path} \cup {file}

Paths(fs) == {f.path : f \in fs}

\* convert_to_html: the document that wraps the HTML body produced by the
\* markdown library from markdown_content; the library's translation is
\* left uninterpreted
convert_to_html(markdown_content) ==
    "<!DOCTYPE html>\n<html lang=\"en\">\n<body class=\"markdown-body\">\n    "
        \o markdown_content \o "\n</body>\n</html>"

\* create_export_directories
ExportDirectories == {".", "html", "markdown", "json"}

(***************************************************************************)
(* export_chat_session, export_editing_session, export_workspace           *)
(***************************************************************************)
\* session.get('creationDate', '')
ChatTimestamp(session) ==
    IF Has(session, "creationDate") THEN session.creationDate ELSE NoTimestamp

\* filename of export_chat_session
ChatFilename(session) == get_safe_filename(ChatTimestamp(session), ChatTitle(session))

Turn(role, text, timestamp) == [role |-> role, text |-> text, timestamp |-> timestamp]

\* request.get('timestamp', '')
RequestTimestamp(request) ==
    IF Has(request, "timestamp") THEN request.timestamp ELSE NoTimestamp

\* RequestTurns with the two appends in the other order
RequestTurns_ResponseFirst(request) ==
    (IF ResponseParts(request) # <<>>
     THEN <<Turn("Cursor", Join(ResponseParts(request), "\n"), RequestTimestamp(request))>>
     ELSE <<>>)
    \o (IF HasUserText(request)
        THEN <<Turn("User", request.message.text, RequestTimestamp(request))>>
        ELSE <<>>)

\* what one request appends to conversation
RequestTurns(request) ==
    (IF HasUserText(request)
     THEN <<Turn("User", request.message.text, RequestTimestamp(request))>>
     ELSE <<>>)
    \o (IF ResponseParts(request) # <<>>
        THEN <<Turn("Cursor", Join(ResponseParts(request), "\n"), RequestTimestamp(request))>>
        ELSE <<>>)

\* conversation of export_chat_session
Conversation(session) ==
    LET requests == GetList(session, "requests")
    IN  Flatten([i \in 1..Len(requests) |-> RequestTurns(requests[i])])

\* the record export_chat_session appends to workspace_data['chats']
ChatRecord(session) ==
    [title |-> ChatTitle(session),
     sessionId |-> GetStr(session, "sessionId", ""),
     timestamp |-> ChatTimestamp(session),
     conversation |-> Conversation(session)]

\* export_chat_session: the new output tree and summary
ChatMarkdownFile(session, workspace, name) ==
    FileRec(FilePath("markdown", name, ChatFilename(session) \o ".md"), "markdown",
            convert_cursor_session_to_markdown(session, workspace.workspaceInfo), <<>>)

ChatHtmlFile(session, workspace, name) ==
    FileRec(FilePath("html", name, ChatFilename(session) \o ".html"), "html",
            convert_to_html(convert_cursor_session_to_markdown(session,
                                                               workspace.workspaceInfo)),
            <<>>)

\* SkipsEditingSession that skips only a session without the key
SkipsEditingSession_MissingOnly(editing_session) == ~Has(editing_session, "linearHistory")

\* if not editing_session.get('linearHistory'): return
SkipsEditingSession(editing_session) == ~Truthy(editing_session, "linearHistory")

\* filename of export_editing_session
EditingFilename(editing_session) ==
    "editing-session-" \o GetStr(editing_session, "sessionId", "Unknown")

EditingMarkdownFile(editing_session, workspace, name) ==
    FileRec(FilePath("markdown", name, EditingFilename(editing_session) \o ".md"),
            "markdown",
            convert_cursor_editing_session_to_markdown(editing_session,
                                                       workspace.workspaceInfo),
            <<>>)

EditingHtmlFile(editing_session, workspace, name) ==
    FileRec(FilePath("html", name, EditingFilename(editing_session) \o ".html"), "html",
            convert_to_html(convert_cursor_editing_session_to_markdown(
                                editing_session, workspace.workspaceInfo)),
            <<>>)

\* the record export_editing_session appends to workspace_data['editingSessions']
EditingRecord(editing_session) ==
    [title |-> "Chat Editing Session " \o GetStr(editing_session, "sessionId", "Unknown"),
     sessionId |-> GetStr(editing_session, "sessionId", "Unknown"),
     version |-> GetStr(editing_session, "version", ""),
     editCount |-> Len(GetList(editing_session, "linearHistory"))]

\* workspace.get(key) and len(workspace[key]) > 0
HasSessions(workspace, key) == Truthy(workspace, key)

\* IsSkipped that skips only a workspace with neither key
IsSkipped_MissingOnly(workspace) ==
    ~Has(workspace, "chatSessions") /\ ~Has(workspace, "editingSessions")

\* if not has_chat_sessions and not has_editing_sessions: ... return None
IsSkipped(workspace) ==
    ~HasSessions(workspace, "chatSessions") /\ ~HasSessions(workspace, "editingSessions")

\* workspace_folder.startswith raises AttributeError when folder is None
WorkspaceNameRaises(workspace) == IsNone(workspace.workspaceInfo, "folder")

\* workspace_name of export_workspace
WorkspaceName(workspace) ==
    LET folder == GetStr(workspace.workspaceInfo, "folder", "")
        workspace_folder == IF StartsWith(folder, "file://")
                            THEN StrReplace(folder, "file://", "") ELSE folder
    IN  IF workspace_folder # "" THEN PathName(workspace_folder) ELSE "Unknown"

\* the summary export_workspace starts from
NewWorkspaceData(workspace) ==
    [workspace |-> WorkspaceName(workspace),
     workspaceInfo |-> workspace.workspaceInfo,
     chats |-> <<>>, editingSessions |-> <<>>]

\* the file written by the json.dumps of export_workspace
JsonFile(data) ==
    FileRec("json/" \o data.workspace \o ".json", "json", "", <<data>>)

(***************************************************************************)
(* Inputs of the exporter: workspace records.                              *)
(***************************************************************************)
MaxChats == 2            \* chat sessions per workspace
MaxEdits == 2            \* editing sessions per workspace
MaxWorkspaces == 2       \* workspace records per run

Workspace(keys, workspaceInfo, chatSessions, editingSessions) ==
    [keys |-> keys, workspaceInfo |-> workspaceInfo,
     chatSessions |-> chatSessions, editingSessions |-> editingSessions]

\* the session of the spec's round trip: one request, 'Hi' answered 'Hello'
HiHelloSession ==
    ChatSession({"sessionId", "customTitle", "creationDate", "requests"},
                "s1", "My chat", StrTs("2024-01-15T10:30:00Z"),
                <<Req({"message", "response"}, Msg("Hi"), <<Frag("Hello")>>, NoTimestamp)>>)

ExportChatSessions ==
    { HiHelloSession,
      \* an empty requests list
      ChatSession({"sessionId", "requests"}, "s2", "", NoTimestamp, <<>>),
      \* no key at all
      ChatSession({}, "", "", NoTimestamp, <<>>),
      \* requests without text
      ChatSession({"sessionId", "customTitle", "requests"}, "s4", "Nothing said",
                  NoTimestamp,
                  <<Req({}, NoTextMsg, <<>>, NoTimestamp),
                    Req({"message", "response"}, Msg(""), <<Frag(""), NoValueFrag>>,
                        NoTimestamp)>>),
      \* two requests, an epoch timestamp, a title to be made safe
      ChatSession({"sessionId", "customTitle", "creationDate", "requests"},
                  "s5", "How? a/b", NumTs(1705313400, 0),
                  <<Req({"message", "timestamp"}, Msg("How?"), <<>>, NumTs(1705313400, 0)),
                    Req({"response"}, NoTextMsg,
                        <<Frag("Like"), NoValueFrag, Frag(""), Frag("this")>>,
                        NoTimestamp)>>),
      \* the title and the creation date of HiHelloSession, another session
      ChatSession({"sessionId", "customTitle", "creationDate", "requests"},
                  "s6", "My chat", StrTs("2024-01-15T10:30:00Z"),
                  <<Req({"message"}, Msg("Again"), <<>>, NoTimestamp)>>) }

FileEdit ==
    Edit({"resource", "originalToCurrentEdit"}, FileUri,
         <<Change("x = 1"), Change("")>>)

ExportEditingSessions ==
    { EditingSession({"sessionId", "version", "linearHistory"}, "e1", "1",
                     <<HistoryEntry({"stops", "postEdit"},
                                    <<Stop({"entries"}, <<FileEntry({"resource"}, FileUri)>>)>>,
                                    <<FileEdit>>)>>),
      \* an empty linearHistory
      EditingSession({"sessionId", "linearHistory"}, "e2", "", <<>>),
      \* no key at all
      EditingSession({}, "", "", <<>>) }

\* a workspace record with each way of carrying its two session lists
WorkspacesOf(info, chats, edits) ==
    { Workspace({"workspaceInfo"} \cup ck \cup ek, info, chats, edits) :
          ck \in (IF chats = <<>> THEN {{}, {"chatSessions"}} ELSE {{"chatSessions"}}),
          ek \in (IF edits = <<>> THEN {{}, {"editingSessions"}} ELSE {{"editingSessions"}}) }

\* a chat session with a request whose message is null
NullMessageSession ==
    ChatSession({"sessionId", "requests"}, "s7", "", NoTimestamp, <<NullMessageReq>>)

\* workspace records whose sessions carry a null optional field: a null
\* folder, and a null message after a session that is exported
NullFieldWorkspaces ==
    { Workspace({"workspaceInfo", "chatSessions"}, NullFolderInfo, <<HiHelloSession>>,
                <<>>),
      Workspace({"workspaceInfo", "chatSessions"},
                Info({"id", "folder"}, "ws1", "file:///home/u/proj"),
                <<HiHelloSession, NullMessageSession>>, <<>>),
      Workspace({"workspaceInfo", "chatSessions", "editingSessions"},
                Info({"id"}, "ws4", ""), <<NullMessageSession>>,
                <<EditingSession({"sessionId", "linearHistory"}, "e2", "", <<>>)>>) }

\* the records of the runs over several workspaces
SharedInfo == Info({"id", "folder"}, "ws1", "file:///home/u/proj")

\* the lists of at most n sessions: any session of First, then sessions of
\* Following
ListsFrom(First, Following, n) ==
    { <<>> } \cup { <<f>> \o r : f \in First, r \in ListsUpTo(Following, n - 1) }

\* the chat sessions that follow a first one: an empty one, and one that
\* gets the file name of HiHelloSession
FollowingChats == { s \in ExportChatSessions : s.sessionId \in {"s2", "s6"} }

\* the editing sessions that follow a first one: one with a history, one
\* with an empty history
FollowingEdits == { e \in ExportEditingSessions : e.sessionId \in {"e1", "e2"} }

\* one workspace record: every workspaceInfo with at most one session of
\* each kind, and one workspaceInfo with every pair of session lists
WorkspacePool ==
    UNION { WorkspacesOf(info, chats, edits) :
                info \in InfoPool,
                chats \in ListsUpTo(ExportChatSessions, 1),
                edits \in ListsUpTo(ExportEditingSessions, 1) }
        \cup UNION { WorkspacesOf(SharedInfo, chats, edits) :
                        chats \in ListsFrom(ExportChatSessions, FollowingChats, MaxChats),
                        edits \in ListsFrom(ExportEditingSessions, FollowingEdits,
                                            MaxEdits) }

SeveralPool ==
    { Workspace({"workspaceInfo", "chatSessions"}, SharedInfo, <<HiHelloSession>>, <<>>),
      Workspace({"workspaceInfo", "chatSessions", "editingSessions"},
                Info({"folder"}, "", "/home/u/other"),
                <<HiHelloSession>>,
                <<EditingSession({"sessionId", "linearHistory"}, "e2", "", <<>>)>>),
      Workspace({"workspaceInfo", "chatSessions", "editingSessions"}, SharedInfo,
                <<>>, <<>>),
      Workspace({"workspaceInfo", "editingSessions"}, Info({"id"}, "ws4", ""), <<>>,
                <<EditingSession({"sessionId", "linearHistory"}, "e2", "", <<>>)>>),
      \* another folder of the last segment of SharedInfo's, another session
      \* of the title and creation date of HiHelloSession
      Workspace({"workspaceInfo", "chatSessions"},
                Info({"id", "folder"}, "ws6", "/srv/proj"),
                <<ChatSession({"sessionId", "customTitle", "creationDate", "requests"},
                              "s6", "My chat", StrTs("2024-01-15T10:30:00Z"),
                              <<Req({"message"}, Msg("Again"), <<>>, NoTimestamp)>>)>>,
                <<>>) }

ChatHistories ==
    { <<>> } \cup { <<w>> : w \in WorkspacePool \cup NullFieldWorkspaces }
             \cup { <<w, v>> : w \in NullFieldWorkspaces, v \in SeveralPool }
             \cup { <<v, w>> : w \in NullFieldWorkspaces, v \in SeveralPool }
             \cup UNION { [1..k -> SeveralPool] : k \in 2..MaxWorkspaces }

(***************************************************************************)
(* export_all_workspaces as a state machine.                               *)
(***************************************************************************)
NoCall == [fn |-> "", state |-> "none", ret |-> ""]

Init ==
    /\ call = NoCall
    /\ chat_history \in ChatHistories
    /\ pc = "start"
    /\ wi = 0
    /\ si = 0
    /\ workspace_name = ""
    /\ workspace_data = NoData
    /\ dirs = {}
    /\ files = {}
    /\ results = <<>>

\* ExportAllWorkspacesStart that goes on with the results it finds
ExportAllWorkspacesStart_KeepResults ==
    /\ pc = "start"
    /\ dirs' = dirs \cup ExportDirectories
    /\ results' = results
    /\ wi' = 1
    /\ pc' = IF Len(chat_history) = 0 THEN "done" ELSE "workspace"
    /\ UNCHANGED <<call, chat_history, si, workspace_name, workspace_data, files>>

\* export_all_workspaces up to its loop: create_export_directories, results = []
ExportAllWorkspacesStart ==
    /\ pc = "start"
    /\ dirs' = dirs \cup ExportDirectories
    /\ results' = <<>>
    /\ wi' = 1
    /\ pc' = IF Len(chat_history) = 0 THEN "done" ELSE "workspace"
    /\ UNCHANGED <<call, chat_history, si, workspace_name, workspace_data, files>>

\* the position after the chat sessions of the workspace are exported
AfterChats(workspace) ==
    IF HasSessions(workspace, "editingSessions") THEN "editing" ELSE "save"

\* export_workspace up to its first loop: a null folder raises, the empty
\* workspace returns None, any other gets its directories and its empty
\* summary
ExportWorkspaceBegin ==
    /\ pc = "workspace"
    /\ wi <= Len(chat_history)
    /\ LET workspace == chat_history[wi]
           name == WorkspaceName(workspace)
       IN  IF WorkspaceNameRaises(workspace)
           THEN /\ pc' = "raised"
                /\ UNCHANGED <<wi, si, workspace_name, workspace_data, dirs, files,
                               results>>
           ELSE IF IsSkipped(workspace)
           THEN /\ results' = Append(results, NoneResult)
                /\ wi' = wi + 1
                /\ pc' = IF wi = Len(chat_history) THEN "done" ELSE "workspace"
                /\ UNCHANGED <<si, workspace_name, workspace_data, dirs, files>>
           ELSE /\ dirs' = dirs \cup {WorkspaceDir("html", name),
                                      WorkspaceDir("markdown", name)}
                                \cup Parents(WorkspaceDir("html", name))
                                \cup Parents(WorkspaceDir("markdown", name))
                /\ workspace_name' = name
                /\ workspace_data' = NewWorkspaceData(workspace)
                /\ si' = 1
                /\ pc' = IF HasSessions(workspace, "chatSessions") THEN "chats"
                         ELSE AfterChats(workspace)
                /\ UNCHANGED <<wi, files, results>>
    /\ UNCHANGED <<call, chat_history>>

\* export_chat_session for the next chat session of the workspace
ExportChatSession ==
    /\ pc = "chats"
    /\ LET workspace == chat_history[wi]
           session == workspace.chatSessions[si]
           md == ChatMarkdownFile(session, workspace, workspace_name)
           html == ChatHtmlFile(session, workspace, workspace_name)
       IN  IF ChatSessionRaises(session)
           THEN /\ pc' = "raised"
                /\ UNCHANGED <<si, workspace_data, dirs, files>>
           ELSE /\ files' = WriteText(WriteText(files, md), html)
                /\ dirs' = dirs \cup Parents(md.path) \cup Parents(html.path)
                /\ workspace_data' =
                       [workspace_data EXCEPT !.chats = Append(@, ChatRecord(session))]
                /\ IF si < Len(workspace.chatSessions)
                   THEN si' = si + 1 /\ pc' = "chats"
                   ELSE si' = 1 /\ pc' = AfterChats(workspace)
    /\ UNCHANGED <<call, chat_history, wi, workspace_name, results>>

\* export_editing_session for the next editing session of the workspace
ExportEditingSession ==
    /\ pc = "editing"
    /\ LET workspace == chat_history[wi]
           editing_session == workspace.editingSessions[si]
           md == EditingMarkdownFile(editing_session, workspace, workspace_name)
           html == EditingHtmlFile(editing_session, workspace, workspace_name)
       IN  /\ IF SkipsEditingSession(editing_session)
              THEN UNCHANGED <<files, dirs, workspace_data>>
              ELSE /\ files' = WriteText(WriteText(files, md), html)
                   /\ dirs' = dirs \cup Parents(md.path) \cup Parents(html.path)
                   /\ workspace_data' =
                          [workspace_data EXCEPT
                              !.editingSessions = Append(@, EditingRecord(editing_session))]
           /\ IF si < Len(workspace.editingSessions)
              THEN si' = si + 1 /\ pc' = "editing"
              ELSE si' = 1 /\ pc' = "save"
    /\ UNCHANGED <<call, chat_history, wi, workspace_name, results>>

\* the end of export_workspace: the JSON summary is written if it has any
\* record, and workspace_data is returned and appended to results
ExportWorkspaceSave ==
    /\ pc = "save"
    /\ files' = IF Len(workspace_data.chats) > 0 \/ Len(workspace_data.editingSessions) > 0
                THEN WriteText(files, JsonFile(workspace_data))
                ELSE files
    /\ results' = Append(results, Some(workspace_data))
    /\ wi' = wi + 1
    /\ pc' = IF wi = Len(chat_history) THEN "done" ELSE "workspace"
    /\ workspace_name' = ""
    /\ workspace_data' = NoData
    /\ si' = 0
    /\ UNCHANGED <<call, chat_history, dirs>>

Next ==
    \/ ExportAllWorkspacesStart
    \/ ExportWorkspaceBegin
    \/ ExportChatSession
    \/ ExportEditingSession
    \/ ExportWorkspaceSave

Spec == Init /\ [][Next]_vars

(***************************************************************************)
(* export_all_workspaces write by write: the position stops after each     *)
(* write_text and each append of the two session exporters, so that every  *)
(* state in which the process can end is a state of the run.               *)
(***************************************************************************)
\* WriteChatMarkdown that writes the HTML file first
WriteChatMarkdown_HtmlFirst ==
    /\ pc = "chats"
    /\ LET workspace == chat_history[wi]
           session == workspace.chatSessions[si]
           html == ChatHtmlFile(session, workspace, workspace_name)
       IN  IF ChatSessionRaises(session)
           THEN pc' = "raised" /\ UNCHANGED <<dirs, files>>
           ELSE /\ files' = WriteText(files, html)
                /\ dirs' = dirs \cup Parents(html.path)
                /\ pc' = "chats_html"
    /\ UNCHANGED <<call, chat_history, wi, si, workspace_name, workspace_data, results>>

\* export_chat_session up to md_path.write_text
WriteChatMarkdown ==
    /\ pc = "chats"
    /\ LET workspace == chat_history[wi]
           session == workspace.chatSessions[si]
           md == ChatMarkdownFile(session, workspace, workspace_name)
       IN  IF ChatSessionRaises(session)
           THEN pc' = "raised" /\ UNCHANGED <<dirs, files>>
           ELSE /\ files' = WriteText(files, md)
                /\ dirs' = dirs \cup Parents(md.path)
                /\ pc' = "chats_html"
    /\ UNCHANGED <<call, chat_history, wi, si, workspace_name, workspace_data, results>>

\* export_chat_session up to html_path.write_text
WriteChatHtml ==
    /\ pc = "chats_html"
    /\ LET workspace == chat_history[wi]
           html == ChatHtmlFile(workspace.chatSessions[si], workspace, workspace_name)
       IN  /\ files' = WriteText(files, html)
           /\ dirs' = dirs \cup Parents(html.path)
    /\ pc' = "chats_record"
    /\ UNCHANGED <<call, chat_history, wi, si, workspace_name, workspace_data, results>>

\* the end of export_chat_session: workspace_data['chats'].append
AppendChatRecord ==
    /\ pc = "chats_record"
    /\ LET workspace == chat_history[wi]
       IN  /\ workspace_data' =
                  [workspace_data EXCEPT
                      !.chats = Append(@, ChatRecord(workspace.chatSessions[si]))]
           /\ IF si < Len(workspace.chatSessions)
              THEN si' = si + 1 /\ pc' = "chats"
              ELSE si' = 1 /\ pc' = AfterChats(workspace)
    /\ UNCHANGED <<call, chat_history, wi, workspace_name, dirs, files, results>>

\* export_editing_session up to md_path.write_text; an empty session returns
WriteEditingMarkdown ==
    /\ pc = "editing"
    /\ LET workspace == chat_history[wi]
           editing_session == workspace.editingSessions[si]
           md == EditingMarkdownFile(editing_session, workspace, workspace_name)
       IN  IF SkipsEditingSession(editing_session)
           THEN /\ UNCHANGED <<files, dirs>>
                /\ IF si < Len(workspace.editingSessions)
                   THEN si' = si + 1 /\ pc' = "editing"
                   ELSE si' = 1 /\ pc' = "save"
           ELSE /\ files' = WriteText(files, md)
                /\ dirs' = dirs \cup Parents(md.path)
                /\ pc' = "editing_html"
                /\ UNCHANGED si
    /\ UNCHANGED <<call, chat_history, wi, workspace_name, workspace_data, results>>

\* export_editing_session up to html_path.write_text
WriteEditingHtml ==
    /\ pc = "editing_html"
    /\ LET workspace == chat_history[wi]
           html == EditingHtmlFile(workspace.editingSessions[si], workspace,
                                   workspace_name)
       IN  /\ files' = WriteText(files, html)
           /\ dirs' = dirs \cup Parents(html.path)
    /\ pc' = "editing_record"
    /\ UNCHANGED <<call, chat_history, wi, si, workspace_name, workspace_data, results>>

\* the end of export_editing_session: workspace_data['editingSessions'].append
AppendEditingRecord ==
    /\ pc = "editing_record"
    /\ LET workspace == chat_history[wi]
       IN  /\ workspace_data' =
                  [workspace_data EXCEPT
                      !.editingSessions =
                          Append(@, EditingRecord(workspace.editingSessions[si]))]
           /\ IF si < Len(workspace.editingSessions)
              THEN si' = si + 1 /\ pc' = "editing"
              ELSE si' = 1 /\ pc' = "save"
    /\ UNCHANGED <<call, chat_history, wi, workspace_name, dirs, files, results>>

NextSteps ==
    \/ ExportAllWorkspacesStart
    \/ ExportWorkspaceBegin
    \/ WriteChatMarkdown
    \/ WriteChatHtml
    \/ AppendChatRecord
    \/ WriteEditingMarkdown
    \/ WriteEditingHtml
    \/ AppendEditingRecord
    \/ ExportWorkspaceSave

SpecSteps == Init /\ [][NextSteps]_vars

(***************************************************************************)
(* A caller that runs export_all_workspaces twice in a row with the same   *)
(* list and the same output directory.                                     *)
(***************************************************************************)
\* what a run leaves: the output tree and the returned list
Outcome(fs, ds, rs) == [files |-> fs, dirs |-> ds, results |-> rs]

InitTwice ==
    /\ call = [fn |-> "export_all_workspaces", state |-> "first",
               first |-> Outcome({}, {}, <<>>)]
    /\ chat_history \in ChatHistories
    /\ pc = "start"
    /\ wi = 0
    /\ si = 0
    /\ workspace_name = ""
    /\ workspace_data = NoData
    /\ dirs = {}
    /\ files = {}
    /\ results = <<>>

\* the first run has returned: the second run starts on the tree it left
RunAgain ==
    /\ pc = "done"
    /\ call.state = "first"
    /\ call' = [call EXCEPT !.state = "second",
                            !.first = Outcome(files, dirs, results)]
    /\ pc' = "start"
    /\ UNCHANGED <<chat_history, wi, si, workspace_name, workspace_data, dirs, files,
                   results>>

NextTwice ==
    \/ ExportAllWorkspacesStart
    \/ ExportWorkspaceBegin
    \/ ExportChatSession
    \/ ExportEditingSession
    \/ ExportWorkspaceSave
    \/ RunAgain

SpecTwice == InitTwice /\ [][NextTwice]_vars

(***************************************************************************)
(* load_workspace_data and load_chat_history_from_directory.  A directory  *)
(* is the list of its entries in the order the file system yields them.    *)
(***************************************************************************)
\* s.endswith(suffix)
EndsWith(s, suffix) ==
    Len(s) >= Len(suffix) /\ SubSeq(s, Len(s) - Len(suffix) + 1, Len(s)) = suffix

\* session_data.get('requests') and len(session_data['requests']) > 0
ChatQualifies(session_data) == Truthy(session_data, "requests")

\* state_data.get('linearHistory') and len(state_data['linearHistory']) > 0
EditingQualifies(state_data) == Truthy(state_data, "linearHistory")

\* LoadChatSessions that loads nothing once a file fails to parse
LoadChatSessions_AbortOnFailure(workspace_dir) ==
    LET entries == IF workspace_dir.chatSessions = NoneResult THEN <<>>
                   ELSE workspace_dir.chatSessions[1]
        kept == {i \in 1..Len(entries) :
                    /\ EndsWith(entries[i].name, ".json")
                    /\ entries[i].parses
                    /\ ChatQualifies(entries[i].data)}
    IN  IF \E i \in 1..Len(entries) :
               EndsWith(entries[i].name, ".json") /\ ~entries[i].parses
        THEN <<>>
        ELSE SelectIdx([i \in 1..Len(entries) |-> entries[i].data], kept)

\* the loop over chat_sessions_dir.glob('*.json'): a file that fails to
\* parse is reported and left out
LoadChatSessions(workspace_dir) ==
    LET entries == IF workspace_dir.chatSessions = NoneResult THEN <<>>
                   ELSE workspace_dir.chatSessions[1]
        kept == {i \in 1..Len(entries) :
                    /\ EndsWith(entries[i].name, ".json")
                    /\ entries[i].parses
                    /\ ChatQualifies(entries[i].data)}
    IN  SelectIdx([i \in 1..Len(entries) |-> entries[i].data], kept)

\* the loop over editing_sessions_dir.iterdir(): only a directory with a
\* state.json that parses is read
LoadEditingSessions(workspace_dir) ==
    LET entries == IF workspace_dir.chatEditingSessions = NoneResult THEN <<>>
                   ELSE workspace_dir.chatEditingSessions[1]
        kept == {i \in 1..Len(entries) :
                    /\ entries[i].is_dir
                    /\ entries[i].state = "valid"
                    /\ EditingQualifies(entries[i].data)}
    IN  SelectIdx([i \in 1..Len(entries) |-> entries[i].data], kept)

\* load_workspace_data: None, or Some(record)
load_workspace_data(workspace_dir) ==
    IF workspace_dir.workspace_json # "valid" THEN NoneResult
    ELSE LET chat_sessions == LoadChatSessions(workspace_dir)
             editing_sessions == LoadEditingSessions(workspace_dir)
         IN  IF Len(chat_sessions) > 0 \/ Len(editing_sessions) > 0
             THEN Some([keys |-> {"workspaceInfo", "chatSessions", "editingSessions"},
                        workspaceInfo |-> workspace_dir.workspace_info,
                        chatSessions |-> chat_sessions,
                        editingSessions |-> editing_sessions])
             ELSE NoneResult

\* the loop of load_chat_history_from_directory over storage_path.iterdir()
load_chat_history_from_directory(entries) ==
    Flatten([i \in 1..Len(entries) |->
                IF entries[i].is_dir /\ entries[i].name # "images"
                THEN load_workspace_data(entries[i]) ELSE NoneResult])

(***************************************************************************)
(* Inputs of main: the input path and what it holds.                       *)
(***************************************************************************)
MaxFiles == 2            \* entries per session directory

\* a file of chatSessions/: its name, whether json.load accepts it, its value
SessionFile(name, parses, data) == [name |-> name, parses |-> parses, data |-> data]

NoSession == ChatSession({}, "", "", NoTimestamp, <<>>)

SessionFiles ==
    { SessionFile("a.json", TRUE, HiHelloSession),
      SessionFile("b.json", FALSE, NoSession),
      SessionFile("c.json", TRUE, ChatSession({"sessionId", "requests"}, "s2", "",
                                              NoTimestamp, <<>>)),
      SessionFile("d.json", TRUE, NoSession),
      SessionFile("notes.txt", TRUE, HiHelloSession) }

\* an entry of chatEditingSessions/: its name, whether it is a directory,
\* its state.json (missing, invalid, valid) and the value of that file
EditingEntry(name, is_dir, state, data) ==
    [name |-> name, is_dir |-> is_dir, state |-> state, data |-> data]

NoEditing == EditingSession({}, "", "", <<>>)

HistoryEditing ==
    EditingSession({"sessionId", "version", "linearHistory"}, "e1", "1",
                   <<HistoryEntry({"postEdit"}, <<>>, <<FileEdit>>)>>)

EditingEntries ==
    { EditingEntry("e1", TRUE, "valid", HistoryEditing),
      EditingEntry("e2", TRUE, "valid",
                   EditingSession({"sessionId", "linearHistory"}, "e2", "", <<>>)),
      EditingEntry("e3", TRUE, "invalid", NoEditing),
      EditingEntry("e4", TRUE, "missing", NoEditing),
      EditingEntry("e5", FALSE, "missing", NoEditing) }

\* a directory that may not exist: None, or Some(its entries)
Listings(S, n) == { NoneResult } \cup { Some(l) : l \in ListsUpTo(S, n) }

\* an entry of the storage root
StorageEntry(name, is_dir, workspace_json, workspace_info, chats, edits) ==
    [name |-> name, is_dir |-> is_dir, workspace_json |-> workspace_json,
     workspace_info |-> workspace_info, chatSessions |-> chats,
     chatEditingSessions |-> edits]

\* workspace directories with a workspace.json that parses: every listing
\* of one session directory beside a few listings of the other
LoadableDirs ==
    { StorageEntry("hash1", TRUE, "valid", SharedInfo, c, e) :
          c \in Listings(SessionFiles, MaxFiles),
          e \in Listings({EditingEntry("e1", TRUE, "valid", HistoryEditing)}, 1) }
        \cup { StorageEntry("hash2", TRUE, "valid", Info({"id"}, "ws4", ""), c, e) :
                   c \in Listings({SessionFile("b.json", FALSE, NoSession)}, 1),
                   e \in Listings(EditingEntries, MaxFiles) }

\* the other entries of a storage root
OtherDirs ==
    { StorageEntry("hash3", TRUE, "missing", Info({}, "", ""),
                   Some(<<SessionFile("a.json", TRUE, HiHelloSession)>>), NoneResult),
      StorageEntry("hash4", TRUE, "invalid", Info({}, "", ""),
                   Some(<<SessionFile("a.json", TRUE, HiHelloSession)>>), NoneResult),
      StorageEntry("images", TRUE, "valid", SharedInfo,
                   Some(<<SessionFile("a.json", TRUE, HiHelloSession)>>), NoneResult),
      StorageEntry("file.txt", FALSE, "missing", Info({}, "", ""),
                   NoneResult, NoneResult) }

\* a storage root that holds a workspace after one of each other entry
MixedRoot ==
    { <<o, StorageEntry("hash1", TRUE, "valid", SharedInfo,
                        Some(<<SessionFile("b.json", FALSE, NoSession),
                               SessionFile("a.json", TRUE, HiHelloSession)>>),
                        NoneResult)>> : o \in OtherDirs }

StorageRoots ==
    { <<>> } \cup { <<d>> : d \in LoadableDirs \cup OtherDirs } \cup MixedRoot

\* the input path: missing, a file (JSON or not), a directory, or another
\* kind of path
MainInput(kind, parses, json, entries) ==
    [kind |-> kind, parses |-> parses, json |-> json, entries |-> entries]

MainInputs ==
    { MainInput("missing", FALSE, <<>>, <<>>), MainInput("other", FALSE, <<>>, <<>>),
      MainInput("file", FALSE, <<>>, <<>>) }
        \cup { MainInput("file", TRUE, h, <<>>) : h \in ChatHistories }
        \cup { MainInput("dir", FALSE, <<>>, r) : r \in StorageRoots }

(***************************************************************************)
(* main as a state machine: load, export_all_workspaces, exit code.        *)
(***************************************************************************)
InitMain ==
    /\ call \in [fn : {"main"}, input : MainInputs, state : {"running"}, exit : {0}]
    /\ chat_history = <<>>
    /\ pc = "main"
    /\ wi = 0
    /\ si = 0
    /\ workspace_name = ""
    /\ workspace_data = NoData
    /\ dirs = {}
    /\ files = {}
    /\ results = <<>>

\* return 1 of main
Exit(code) == call' = [call EXCEPT !.state = "exited", !.exit = code]

\* main up to the call of export_all_workspaces
MainLoad ==
    /\ pc = "main"
    /\ LET input == call.input
           loaded == IF input.kind = "file" THEN input.json
                     ELSE load_chat_history_from_directory(input.entries)
       IN  IF \/ input.kind \in {"missing", "other"}
              \/ (input.kind = "file" /\ ~input.parses)
           THEN Exit(1) /\ pc' = "exit" /\ UNCHANGED chat_history
           ELSE /\ chat_history' = loaded
                /\ IF Len(loaded) = 0
                   THEN Exit(1) /\ pc' = "exit"
                   ELSE pc' = "start" /\ UNCHANGED call
    /\ UNCHANGED <<wi, si, workspace_name, workspace_data, dirs, files, results>>

\* export_all_workspaces has returned: the summary is printed, return 0
MainReturn ==
    /\ pc = "done"
    /\ call.fn = "main"
    /\ Exit(0)
    /\ pc' = "exit"
    /\ UNCHANGED <<chat_history, wi, si, workspace_name, workspace_data, dirs, files,
                   results>>

\* except Exception of main: return 1
MainExcept ==
    /\ pc = "raised"
    /\ call.fn = "main"
    /\ Exit(1)
    /\ pc' = "exit"
    /\ UNCHANGED <<chat_history, wi, si, workspace_name, workspace_data, dirs, files,
                   results>>

NextMain ==
    \/ MainLoad
    \/ ExportAllWorkspacesStart
    \/ ExportWorkspaceBegin
    \/ ExportChatSession
    \/ ExportEditingSession
    \/ ExportWorkspaceSave
    \/ MainReturn
    \/ MainExcept

SpecMain == InitMain /\ [][NextMain]_vars

(***************************************************************************)
(* Claims about the exporter (checked under Spec).                         *)
(***************************************************************************)
ChatsOf(workspace) == GetList(workspace, "chatSessions")

EditsOf(workspace) == GetList(workspace, "editingSessions")

\* the summaries of the workspaces exported so far: results without the Nones
Exported == {i \in 1..Len(results) : results[i] # NoneResult}

Summary(i) == results[i][1]

\* C1: after export_all_workspaces, every chat session with zero usable
\* content (no request with user text or a non-empty response fragment) has
\* been skipped: it has no markdown file, no HTML file and no entry in the
\* summary's chats list.
C1_EmptyChatSkipped ==
    pc = "done" =>
        \A i \in 1..Len(chat_history) :
            LET workspace == chat_history[i]
                name == WorkspaceName(workspace)
            IN  /\ \A k \in 1..Len(ChatsOf(workspace)) :
                       NoRequestHasText(ChatsOf(workspace)[k]) =>
                           /\ ChatMarkdownFile(ChatsOf(workspace)[k], workspace, name).path
                                  \notin Paths(files)
                           /\ ChatHtmlFile(ChatsOf(workspace)[k], workspace, name).path
                                  \notin Paths(files)
                /\ i \in Exported =>
                       \A k \in 1..Len(Summary(i).chats) :
                           Summary(i).chats[k].conversation # <<>>

\* C2: export_workspace returns None whenever nothing was exported: a
\* returned summary holds at least one chat record or one editing-session
\* record, and then json/{workspace}.json has been written.
C2_NoneWhenNothingExported ==
    \A i \in Exported :
        /\ Len(Summary(i).chats) > 0 \/ Len(Summary(i).editingSessions) > 0
        /\ JsonFile(Summary(i)).path \in Paths(files)

\* both session lists of the workspace are empty or missing
IsEmptyWorkspace(workspace) ==
    Len(ChatsOf(workspace)) = 0 /\ Len(EditsOf(workspace)) = 0

\* C3: for a workspace record whose chatSessions and editingSessions are
\* both empty or missing, export_workspace returns None and leaves the
\* output tree as it was: no directory and no file is created.
C3_EmptyWorkspaceWritesNothing ==
    [][(pc = "workspace" /\ IsEmptyWorkspace(chat_history[wi]))
           => /\ files' = files
              /\ dirs' = dirs
              /\ results' = Append(results, NoneResult)]_vars

\* a run whose only workspace has its two lists empty or missing has ended:
\* it returned None and the tree holds the four base directories only
C3_Witness ==
    /\ pc = "done"
    /\ Len(chat_history) = 1
    /\ IsEmptyWorkspace(chat_history[1])
    /\ Has(chat_history[1], "chatSessions")
    /\ results = <<NoneResult>>
    /\ files = {}
    /\ dirs = ExportDirectories

EmptyHistory(editing_session) == Len(GetList(editing_session, "linearHistory")) = 0

\* C4: export_editing_session of an editing session with an empty or
\* missing linearHistory writes no file, creates no directory and appends
\* nothing to the summary.
C4_EmptyEditingSessionSkipped ==
    [][(pc = "editing" /\ EmptyHistory(chat_history[wi].editingSessions[si]))
           => /\ files' = files
              /\ dirs' = dirs
              /\ workspace_data' = workspace_data]_vars

\* all editing sessions of a workspace, one of them with a present but empty
\* linearHistory, have been gone through and nothing was written or appended
C4_Witness ==
    /\ pc = "save"
    /\ Len(ChatsOf(chat_history[wi])) = 0
    /\ \E k \in 1..Len(EditsOf(chat_history[wi])) :
           Has(EditsOf(chat_history[wi])[k], "linearHistory")
    /\ \A k \in 1..Len(EditsOf(chat_history[wi])) :
           EmptyHistory(EditsOf(chat_history[wi])[k])
    /\ workspace_data.editingSessions = <<>>
    /\ files = {}

\* the workspace has one chat session of one request with user text and one
\* non-empty response fragment
IsRoundTrip(workspace) ==
    /\ Len(ChatsOf(workspace)) = 1
    /\ Len(GetList(ChatsOf(workspace)[1], "requests")) = 1
    /\ HasUserText(ChatsOf(workspace)[1].requests[1])
    /\ Len(GetList(ChatsOf(workspace)[1].requests[1], "response")) = 1
    /\ Truthy(ChatsOf(workspace)[1].requests[1].response[1], "value")

\* the position of the first occurrence of sub in s, 0 if there is none
FirstIndex(s, sub) ==
    LET at == {i \in 1..Len(s) : MatchAt(s, sub, i)}
    IN  IF at = {} THEN 0 ELSE CHOOSE i \in at : \A j \in at : i <= j

\* the markdown file of the round-trip session has the user text before the
\* response text
RoundTripMarkdown(workspace) ==
    LET request == ChatsOf(workspace)[1].requests[1]
        path == ChatMarkdownFile(ChatsOf(workspace)[1], workspace,
                                 WorkspaceName(workspace)).path
    IN  \E f \in files :
            /\ f.path = path
            /\ FirstIndex(f.text, request.message.text) > 0
            /\ FirstIndex(f.text, request.message.text)
                   < FirstIndex(f.text, request.response[1].value)

Roles(conversation) == [k \in 1..Len(conversation) |-> conversation[k].role]

\* the round trip and the roles of every summary, for a name of the
\* assistant role; the markdown document is the one export_workspace leaves
\* when it returns, before the export of a later workspace can write to the
\* same path
RoundTripWithRoles(assistant) ==
    pc \in {"workspace", "done"} =>
        \A i \in 1..Len(results) :
            /\ i \in Exported =>
                   \A k \in 1..Len(Summary(i).chats) :
                       \A t \in 1..Len(Summary(i).chats[k].conversation) :
                           Summary(i).chats[k].conversation[t].role \in {"User", assistant}
            /\ IsRoundTrip(chat_history[i]) =>
                   /\ i = Len(results) => RoundTripMarkdown(chat_history[i])
                   /\ i \in Exported
                   /\ Roles(Summary(i).chats[1].conversation) = <<"User", assistant>>

\* C5 (as stated): exporting a workspace with one chat session of one request
\* with user text and one non-empty response fragment yields a markdown
\* document with the user text before the response text and a summary whose
\* chats[0].conversation has exactly the roles "User" then "Assistant";
\* every role of any summary conversation is in {User, Assistant}.
C5_UserThenAssistant == RoundTripWithRoles("Assistant")

\* C5 (amended): the same, with the assistant role named "Cursor": the
\* conversation has exactly the roles "User" then "Cursor", and every role
\* of any summary conversation is in {User, Cursor}.
C5_UserThenCursor == RoundTripWithRoles("Cursor")

\* the round-trip workspace has been exported
C5_Witness ==
    /\ pc = "done"
    /\ Len(chat_history) = 1
    /\ IsRoundTrip(chat_history[1])
    /\ 1 \in Exported
    /\ Len(Summary(1).chats[1].conversation) = 2
    /\ RoundTripMarkdown(chat_history[1])

\* the workspace name of the claim: the last segment of the folder without
\* its file:// scheme, else the id, else "Unknown"
NameFromFolderOrId(workspaceInfo) ==
    IF Truthy(workspaceInfo, "folder")
    THEN PathName(IF StartsWith(workspaceInfo.folder, "file://")
                  THEN StrReplace(workspaceInfo.folder, "file://", "")
                  ELSE workspaceInfo.folder)
    ELSE IF Truthy(workspaceInfo, "id") THEN workspaceInfo.id
    ELSE "Unknown"

\* C10: export_workspace derives the workspace name (of the markdown and
\* html directories, of the json file and of the summary's workspace field)
\* from the last path segment of workspaceInfo.folder without its file://
\* scheme; when folder is absent or empty it uses workspaceInfo.id, and
\* only when both are absent the literal "Unknown".
C10_NameFromFolderOrId ==
    \A i \in Exported :
        LET name == NameFromFolderOrId(chat_history[i].workspaceInfo)
        IN  /\ Summary(i).workspace = name
            /\ WorkspaceDir("markdown", name) \in dirs
            /\ WorkspaceDir("html", name) \in dirs

\* C12: for any workspace record whose sessions have missing or null optional
\* fields (folder, customTitle, creationDate, a request's message or
\* response, a fragment's value, stops, postEdit, version), the export never
\* raises: the run is never aborted by such a field.
C12_NeverRaises == pc # "raised"

\* no other workspace record of the list has the workspace name of record i
NameIsOwn(i) ==
    \A j \in 1..Len(chat_history) :
        j # i => WorkspaceName(chat_history[j]) # WorkspaceName(chat_history[i])

\* the paths of the files of the editing sessions of record i
EditingPaths(i) ==
    LET workspace == chat_history[i]
        name == WorkspaceName(workspace)
    IN  UNION { { FilePath("markdown", name,
                           EditingFilename(EditsOf(workspace)[k]) \o ".md"),
                  FilePath("html", name,
                           EditingFilename(EditsOf(workspace)[k]) \o ".html") } :
                    k \in 1..Len(EditsOf(workspace)) }

\* the files of a format in the directory of record i that are not files of
\* its editing sessions
ChatFiles(i, format_name, suffix) ==
    LET dir == WorkspaceDir(format_name, WorkspaceName(chat_history[i])) \o "/"
        editing == EditingPaths(i)
    IN  { f \in files :
              /\ f.format = format_name
              /\ StartsWith(f.path, dir)
              /\ EndsWith(f.path, suffix)
              /\ f.path \notin editing }

\* the file names of the chat sessions of record i
ChatFilenames(i) ==
    { ChatFilename(ChatsOf(chat_history[i])[k]) : k \in 1..Len(ChatsOf(chat_history[i])) }

\* the last chat session of record i that gets the file name of session k
LastWithName(i, k) ==
    LET chats == ChatsOf(chat_history[i])
        same == {j \in 1..Len(chats) : ChatFilename(chats[j]) = ChatFilename(chats[k])}
    IN  chats[CHOOSE j \in same : \A h \in same : h <= j]

\* C14 (as stated): within one workspace's output directory, any two
\* exported chat sessions get distinct markdown/HTML file names, so after
\* the export the number of chat .md files, and of chat .html files, equals
\* the number of entries in the summary's chats list.
C14_DistinctFileNames ==
    pc = "done" =>
        \A i \in Exported :
            NameIsOwn(i) =>
                LET chats == ChatsOf(chat_history[i])
                IN  /\ \A j, k \in 1..Len(chats) :
                           j # k => ChatFilename(chats[j]) # ChatFilename(chats[k])
                    /\ Cardinality(ChatFiles(i, "markdown", ".md"))
                           = Len(Summary(i).chats)
                    /\ Cardinality(ChatFiles(i, "html", ".html"))
                           = Len(Summary(i).chats)

\* C14 (amended): the file name of a chat session is get_safe_filename of
\* its creation date and title, and two sessions of a workspace that get the
\* same name share one markdown file and one HTML file, which hold the
\* rendering of the last of them.  After the export the number of chat .md
\* files, and of chat .html files, is the number of distinct file names of
\* the workspace's chat sessions, at most the number of entries in the
\* summary's chats list, which has one entry per chat session.
C14_LastSessionKeepsTheName ==
    pc = "done" =>
        \A i \in Exported :
            NameIsOwn(i) =>
                LET workspace == chat_history[i]
                    name == WorkspaceName(workspace)
                    chats == ChatsOf(workspace)
                    md == ChatFiles(i, "markdown", ".md")
                    html == ChatFiles(i, "html", ".html")
                    names == ChatFilenames(i)
                IN  /\ Len(Summary(i).chats) = Len(chats)
                    /\ Cardinality(md) = Cardinality(names)
                    /\ Cardinality(html) = Cardinality(names)
                    /\ Cardinality(names) <= Len(Summary(i).chats)
                    /\ \A k \in 1..Len(chats) :
                           /\ ChatMarkdownFile(LastWithName(i, k), workspace, name) \in md
                           /\ ChatHtmlFile(LastWithName(i, k), workspace, name) \in html

\* a workspace with two different chat sessions of one file name has been
\* exported: one markdown file, two entries in the summary
C14_Witness ==
    /\ pc = "done"
    /\ Len(chat_history) = 1
    /\ 1 \in Exported
    /\ Len(ChatsOf(chat_history[1])) = 2
    /\ ChatsOf(chat_history[1])[1] # ChatsOf(chat_history[1])[2]
    /\ Cardinality(ChatFilenames(1)) = 1
    /\ Cardinality(ChatFiles(1, "markdown", ".md")) = 1
    /\ Len(Summary(1).chats) = 2

\* C17: the export of one workspace record never overwrites, replaces or
\* adds to an output file produced by the export of a different record of
\* the same list: after export_all_workspaces every result that holds a
\* record has its own json/{workspace}.json holding exactly that result,
\* and the markdown and HTML files of its chat sessions hold its own
\* renderings.
C17_OwnFilesPerWorkspace ==
    pc = "done" =>
        \A i \in Exported :
            (Len(Summary(i).chats) > 0 \/ Len(Summary(i).editingSessions) > 0) =>
                LET workspace == chat_history[i]
                    name == WorkspaceName(workspace)
                    chats == ChatsOf(workspace)
                IN  /\ JsonFile(Summary(i)) \in files
                    /\ \A k \in 1..Len(chats) :
                           /\ ChatMarkdownFile(LastWithName(i, k), workspace, name)
                                  \in files
                           /\ ChatHtmlFile(LastWithName(i, k), workspace, name)
                                  \in files

(***************************************************************************)
(* Claims about the order of the writes (checked under SpecSteps).         *)
(***************************************************************************)
\* the markdown path of the session whose HTML file has the path html_path:
\* html/{workspace}/{name}.html -> markdown/{workspace}/{name}.md
MarkdownPathOf(html_path) ==
    "markdown/" \o SubSeq(html_path, Len("html/") + 1, Len(html_path) - Len(".html"))
        \o ".md"

\* both files of a session of the workspace name exist
BothFilesExist(name, filename) ==
    /\ FilePath("markdown", name, filename \o ".md") \in Paths(files)
    /\ FilePath("html", name, filename \o ".html") \in Paths(files)

\* every session of record i that is exported has its two files
AllFilesExist(i) ==
    LET workspace == chat_history[i]
        name == WorkspaceName(workspace)
    IN  /\ \A k \in 1..Len(ChatsOf(workspace)) :
               BothFilesExist(name, ChatFilename(ChatsOf(workspace)[k]))
        /\ \A k \in 1..Len(EditsOf(workspace)) :
               SkipsEditingSession(EditsOf(workspace)[k])
                   \/ BothFilesExist(name, EditingFilename(EditsOf(workspace)[k]))

\* the JSON summary files
JsonFiles(fs) == { f \in fs : f.format = "json" }

\* in the state reached, whichever step was the last one taken:
\* an HTML file implies the markdown file of its session, a summary record
\* implies the two files of its session, and a JSON summary file implies a
\* record of that workspace name whose export has returned and whose
\* sessions all have their two files
WritesAreOrdered ==
    /\ \A f \in files :
           f.format = "html" => MarkdownPathOf(f.path) \in Paths(files)
    /\ \A k \in 1..Len(workspace_data.chats) :
           BothFilesExist(workspace_name,
                          get_safe_filename(workspace_data.chats[k].timestamp,
                                            workspace_data.chats[k].title))
    /\ \A k \in 1..Len(workspace_data.editingSessions) :
           BothFilesExist(workspace_name,
                          "editing-session-"
                              \o workspace_data.editingSessions[k].sessionId)
    /\ \A f \in JsonFiles(files) :
           \E i \in Exported :
               /\ f.path = JsonFile(results[i][1]).path
               /\ AllFilesExist(i)

\* a step writes a JSON summary file only as the last step of a workspace
\* export, after every session of the workspace has been processed, and
\* that step writes the summary whenever it holds a record
JsonWrittenLast ==
    /\ JsonFiles(files') # JsonFiles(files) => pc = "save"
    /\ (pc = "save" /\ pc' # "save"
            /\ (Len(workspace_data.chats) > 0
                    \/ Len(workspace_data.editingSessions) > 0))
           => /\ JsonFile(workspace_data) \in files'
              /\ results' = Append(results, Some(workspace_data))

SecondRunReturned ==
    call.fn = "export_all_workspaces" /\ call.state = "second" /\ pc = "done"

\* C15: running export_all_workspaces twice in a row with the same
\* workspace list and the same output directory leaves exactly the files
\* (and directories) of the first run, with exactly the same contents, and
\* returns the same results.
C15_SecondRunChangesNothing ==
    SecondRunReturned =>
        /\ files = call.first.files
        /\ dirs = call.first.dirs
        /\ results = call.first.results

\* a second run that had sessions to export has returned
C15_Witness ==
    /\ SecondRunReturned
    /\ Exported # {}
    /\ \E f \in files : f.format = "markdown"
    /\ \E f \in files : f.format = "json"
    /\ files = call.first.files
    /\ results = call.first.results

(***************************************************************************)
(* Claims about main and the loader (checked under SpecMain).              *)
(***************************************************************************)
Exited == call.fn = "main" /\ call.state = "exited"

\* the input path is missing, is neither file nor directory, holds invalid
\* JSON, or yields no workspace
NothingLoadable(input) ==
    \/ input.kind \in {"missing", "other"}
    \/ (input.kind = "file" /\ (~input.parses \/ Len(input.json) = 0))
    \/ (input.kind = "dir" /\ Len(chat_history) = 0)

\* C13: main exits with code 0 only when at least one workspace was
\* processed (at least one non-null export result), and with code 1 when
\* the input path is missing, is neither file nor directory, holds invalid
\* JSON, or yields zero loadable workspaces.
C13_ExitZeroOnlyWhenProcessed ==
    Exited => /\ call.exit = 0 => Exported # {}
              /\ NothingLoadable(call.input) => call.exit = 1

\* the entries of a directory that may not exist
EntriesOf(listing) == IF listing = NoneResult THEN <<>> ELSE listing[1]

Elements(list) == { list[k] : k \in 1..Len(list) }

\* the values of the session files of a workspace directory that parse and
\* have a non-empty requests list
GoodChats(entry) ==
    { f.data : f \in { x \in Elements(EntriesOf(entry.chatSessions)) :
                          /\ EndsWith(x.name, ".json") /\ x.parses
                          /\ Len(GetList(x.data, "requests")) > 0 } }

\* the values of the state.json files of a workspace directory that parse
\* and have a non-empty linearHistory
GoodEdits(entry) ==
    { e.data : e \in { x \in Elements(EntriesOf(entry.chatEditingSessions)) :
                          /\ x.is_dir /\ x.state = "valid"
                          /\ Len(GetList(x.data, "linearHistory")) > 0 } }

\* the workspace directories of the storage root that hold a workspace.json
\* that parses and at least one qualifying session
LoadableEntries(entries) ==
    { k \in 1..Len(entries) :
          /\ entries[k].is_dir /\ entries[k].name # "images"
          /\ entries[k].workspace_json = "valid"
          /\ GoodChats(entries[k]) \cup GoodEdits(entries[k]) # {} }

LoadedFromDirectory == call.fn = "main" /\ call.input.kind = "dir" /\ pc # "main"

\* C16: load_workspace_data returns a workspace record only if at least one
\* chat session with a non-empty requests list or one editing session with
\* a non-empty linearHistory was loaded, and otherwise returns nothing; a
\* session file that fails to parse is left out alone and the other
\* sessions of the workspace are loaded; so every record of the list
\* returned by load_chat_history_from_directory has at least one qualifying
\* session, and only qualifying sessions.
C16_OnlyQualifyingWorkspaces ==
    LoadedFromDirectory =>
        LET entries == call.input.entries
        IN  /\ Len(chat_history) = Cardinality(LoadableEntries(entries))
            /\ \A i \in 1..Len(chat_history) :
                   /\ Len(chat_history[i].chatSessions)
                          + Len(chat_history[i].editingSessions) > 0
                   /\ \A c \in Elements(chat_history[i].chatSessions) :
                          Len(GetList(c, "requests")) > 0
                   /\ \A e \in Elements(chat_history[i].editingSessions) :
                          Len(GetList(e, "linearHistory")) > 0
            /\ \A k \in LoadableEntries(entries) :
                   \E i \in 1..Len(chat_history) :
                       /\ chat_history[i].workspaceInfo = entries[k].workspace_info
                       /\ Elements(chat_history[i].chatSessions) = GoodChats(entries[k])
                       /\ Elements(chat_history[i].editingSessions)
                              = GoodEdits(entries[k])

\* a workspace directory whose first session file fails to parse and whose
\* second one holds a conversation has been loaded: one record, one session
C16_Witness ==
    /\ LoadedFromDirectory
    /\ \E k \in 1..Len(call.input.entries) :
           LET files_k == EntriesOf(call.input.entries[k].chatSessions)
           IN  /\ Len(files_k) = 2
               /\ ~files_k[1].parses /\ EndsWith(files_k[1].name, ".json")
               /\ files_k[2].parses /\ EndsWith(files_k[2].name, ".json")
    /\ Len(chat_history) = 1
    /\ Len(chat_history[1].chatSessions) = 1
    /\ Len(chat_history[1].editingSessions) = 0

====
